---- MODULE Spec2Model ----
(***************************************************************************)
(* SlashContext of discord_slash/context.py: the acknowledgment            *)
(* (respond), the followup (send, send_hidden), the correlation of the     *)
(* triggering message and the background deletion.                         *)
(*                                                                         *)
(* One coroutine uses the context, one call after the other.  A call is    *)
(* cut at its await points: what runs between two awaits is one action.    *)
(* The event loop's part (the acknowledgment task, the gateway's messages, *)
(* the clock, the HTTP answer, the deletion task) is the environment.      *)
(***************************************************************************)
EXTENDS Integers, Sequences, FiniteSets

VARIABLES
    ctx,        \* the attributes __init__ sets and nothing changes afterwards
    sent,       \* self.sent
    message,    \* self.message
    posts,      \* every self._http.post(...) made so far, oldest first
    deletions,  \* the tasks created for smsg.delete(delay=...)
    pc,         \* where the caller's coroutine is suspended
    call,       \* the call in progress, or the last one finished
    entry,      \* sent, message and the number of posts when that call began
    result,     \* how the last finished call ended
    waited,     \* seconds spent so far in bot.wait_for
    history     \* the methods called so far, oldest first

vars == <<ctx, sent, message, posts, deletions, pc, call, entry, result, waited, history>>

(***************************************************************************)
(* Bounds of the exploration.                                              *)
(***************************************************************************)
MaxCalls == 2
MaxEmbedsLen == 11

(***************************************************************************)
(* Numbers of the program.                                                 *)
(***************************************************************************)
AckTypeEat == 2
AckTypeKeep == 5
LegacyLow == 2
LegacyHigh == 5
EmbedLimit == 10
EphemeralFlag == 64
UserInputType == 20
WaitForTimeout == 3

None == [none |-> TRUE]

(***************************************************************************)
(* Values.  A Python str is a sequence of characters where the code looks  *)
(* into it (names, ids, message contents) and a TLA+ string where it only  *)
(* passes it on.  `content` of send() may be a str or an int.              *)
(***************************************************************************)
StrContent(s) == [kind |-> "str", s |-> s, n |-> 0]
IntContent(n) == [kind |-> "int", s |-> "", n |-> n]

NoSeq == [kind |-> "none", items |-> <<>>]
List(items) == [kind |-> "list", items |-> items]
Tuple(items) == [kind |-> "tuple", items |-> items]

NoDelay == [given |-> FALSE, secs |-> 0]
Delay(n) == [given |-> TRUE, secs |-> n]

\* bool(x) of an optional sequence: None and the empty sequence are falsy
Truthy(x) == x.kind # "none" /\ Len(x.items) > 0

\* bool(x) of an optional object
Given(x) == x # "None"

DigitValue(c) ==
    CASE c = "0" -> 0 [] c = "1" -> 1 [] c = "2" -> 2 [] c = "3" -> 3 [] c = "4" -> 4
      [] c = "5" -> 5 [] c = "6" -> 6 [] c = "7" -> 7 [] c = "8" -> 8 [] c = "9" -> 9

RECURSIVE ParseInt(_)
\* int("...") of a decimal string
ParseInt(s) ==
    IF Len(s) = 0 THEN 0
    ELSE 10 * ParseInt(SubSeq(s, 1, Len(s) - 1)) + DigitValue(s[Len(s)])

\* str.startswith
StartsWith(s, prefix) ==
    /\ Len(prefix) <= Len(s)
    /\ SubSeq(s, 1, Len(prefix)) = prefix

(***************************************************************************)
(* __init__: the attributes taken from the interaction payload.  The       *)
(* client may or may not know the guild, the member and the channel: an    *)
(* attribute is the object when it is known and the bare id otherwise.  A  *)
(* channel the guild knows is a TextChannel or a channel of another class. *)
(***************************************************************************)
\* an attribute: the int id, or an object of class cls with that id
Entity(cls, id) == [isInt |-> cls = "int", cls |-> cls, id |-> id]

\* channelFound is what guild.get_channel returns: "None", or the class of the channel
SlashContextInit(json, guildKnown, memberKnown, channelFound, botMentions) ==
    [ token          |-> json.token,
      name           |-> json.data.name,
      interaction_id |-> json.id,
      command_id     |-> json.data.id,
      guild          |-> Entity(IF guildKnown THEN "Guild" ELSE "int", ParseInt(json.guild_id)),
      author         |-> Entity(IF guildKnown /\ memberKnown THEN "Member" ELSE "int",
                                ParseInt(json.member.user.id)),
      channel        |-> Entity(IF guildKnown /\ channelFound # "None" THEN channelFound ELSE "int",
                                ParseInt(json.channel_id)),
      bot_allowed_mentions |-> botMentions ]

\* self.author if isinstance(self.author, int) else self.author.id
IdOf(e) == IF e.isInt THEN e.id ELSE e.id

\* f"</{self.name}:{self.command_id}>"
CommandPrefix(c) == <<"<", "/">> \o c.name \o <<":">> \o c.command_id \o <<">">>

check_type_ignored(c, m) ==
    /\ m.author_id = IdOf(c.author)
    /\ IdOf(c.channel) = m.channel_id
    /\ StartsWith(m.content, CommandPrefix(c))

\* the predicate respond() hands to bot.wait_for
check(c, m) ==
    LET is_author == m.author_id = IdOf(c.author)
        is_channel == IdOf(c.channel) = m.channel_id
        is_user_input == m.type = UserInputType
        is_correct_command == StartsWith(m.content, CommandPrefix(c))
    IN  is_author /\ is_channel /\ is_user_input /\ is_correct_command

(***************************************************************************)
(* The outbound side: what self._http.post is called with.                 *)
(***************************************************************************)
\* self._http.post(base, wait, self.interaction_id, self.__token, initial, files=files)
Post(c, initial, base, wait, files, status) ==
    [ initial        |-> initial,
      body           |-> base,
      wait           |-> wait,
      interaction_id |-> c.interaction_id,
      token          |-> c.token,
      files          |-> files,
      status         |-> status ]

\* what the platform answers to the i-th post
Response(i) == [id |-> i]

AckTypeSwapped(eat) == IF eat THEN AckTypeKeep ELSE AckTypeEat

\* 2 if eat else 5
AckType(eat) == IF eat THEN AckTypeEat ELSE AckTypeKeep

\* the task create_task makes of the initial post
AckPost(c, eat) == Post(c, TRUE, [type |-> AckType(eat)], FALSE, NoSeq, "created")

IsLegacyContent(content) ==
    content.kind = "int" /\ LegacyLow <= content.n /\ content.n <= LegacyHigh

\* if not self.sent
ShouldRespond(s) == ~s

EmbedConflictIgnored(a) == FALSE

\* if embed and embeds
EmbedConflict(a) == Given(a.embed) /\ Truthy(a.embeds)

\* if file and files
FileConflict(a) == Given(a.file) /\ Truthy(a.files)

TooManyEmbedsOffByOne(n) == n > EmbedLimit + 1

\* len(embeds) > 10
TooManyEmbeds(n) == n > EmbedLimit

\* embed.to_dict()
EmbedToDict(e) == [type |-> "rich", title |-> e]

\* allowed_mentions.to_dict(): a dict is the set of its items
MentionsToDict(am) == {<<"parse", am>>}

\* the allowed_mentions of the body: the argument's, else the bot's, else {}
AllowedMentionsOf(c, a) ==
    IF Given(a.allowed_mentions) THEN MentionsToDict(a.allowed_mentions)
    ELSE IF Given(c.bot_allowed_mentions) THEN MentionsToDict(c.bot_allowed_mentions)
    ELSE {}

\* embeds after `if embed: embeds = [embed]`
EmbedsOf(a) == IF Given(a.embed) THEN List(<<a.embed>>) ELSE a.embeds

\* files after `if file: files = [file]`
FilesOf(a) == IF Given(a.file) THEN List(<<a.file>>) ELSE a.files

\* the body of a followup
SendBase(c, a) ==
    LET embeds == EmbedsOf(a)
    IN  [ content |-> a.content,
          tts     |-> a.tts,
          embeds  |-> IF Truthy(embeds)
                      THEN [i \in 1..Len(embeds.items) |-> EmbedToDict(embeds.items[i])]
                      ELSE <<>>,
          allowed_mentions |-> AllowedMentionsOf(c, a) ]

HiddenBaseWithTts(content) == [content |-> content, flags |-> EphemeralFlag, tts |-> FALSE]

\* the body send_hidden builds
HiddenBase(content) == [content |-> content, flags |-> EphemeralFlag]

\* send_hidden(content): the post it returns
HiddenPost(c, content) == Post(c, FALSE, HiddenBase(content), FALSE, NoSeq, "running")

WarnRespondFirst == "It is highly recommended to call respond first"
WarnHiddenEmbed == "Embed is not supported for hidden"

Outcome(exc, warnings, post) == [exc |-> exc, warnings |-> warnings, post |-> post]

\* the message of the IncorrectFormat the checks of send() raise, empty when none does
SendError(a) ==
    IF EmbedConflict(a) THEN "both embed and embeds"
    ELSE IF Truthy(EmbedsOf(a)) /\ EmbedsOf(a).kind # "list" THEN "embeds is not a list"
    ELSE IF Truthy(EmbedsOf(a)) /\ TooManyEmbeds(Len(EmbedsOf(a).items))
         THEN "more than 10 embeds"
    ELSE IF FileConflict(a) THEN "both file and files"
    ELSE ""

SendOutcomePostFirst(c, a) ==
    IF a.hidden
    THEN Outcome("", IF Truthy(a.embeds) \/ Given(a.embed) THEN {WarnHiddenEmbed} ELSE {},
                 <<HiddenPost(c, a.content)>>)
    ELSE Outcome(IF SendError(a) # "" THEN "IncorrectFormat" ELSE "", {},
                 <<Post(c, FALSE, SendBase(c, a), a.wait, FilesOf(a), "running")>>)

\* send() from `if hidden:` to the followup post: what it raises, logs and posts
SendOutcome(c, a) ==
    IF a.hidden
    THEN Outcome("", IF Truthy(a.embeds) \/ Given(a.embed) THEN {WarnHiddenEmbed} ELSE {},
                 <<HiddenPost(c, a.content)>>)
    ELSE IF SendError(a) # ""
    THEN Outcome("IncorrectFormat", {}, <<>>)
    ELSE Outcome("", {}, <<Post(c, FALSE, SendBase(c, a), a.wait, FilesOf(a), "running")>>)

\* the body _legacy_send builds: the embeds as they come, unchecked
LegacyBase(c, a) ==
    [ content |-> a.content,
      tts     |-> a.tts,
      embeds  |-> IF Truthy(a.embeds)
                  THEN [i \in 1..Len(a.embeds.items) |-> EmbedToDict(a.embeds.items[i])]
                  ELSE <<>>,
      allowed_mentions |-> AllowedMentionsOf(c, a) ]

\* model.SlashMessage(state, data=resp, channel=..., _http, interaction_token)
\* channel is self.channel when that is a TextChannel, else disnake.Object(id=self.channel)
SlashMessage(c, resp) ==
    [ data              |-> resp,
      channel           |-> IF c.channel.cls = "TextChannel"
                            THEN c.channel
                            ELSE [isInt |-> FALSE, cls |-> "Object", id |-> c.channel],
      interaction_token |-> c.token ]

\* if delete_after
ShouldDelete(d) == d.given /\ d.secs # 0

(***************************************************************************)
(* Inputs.                                                                 *)
(***************************************************************************)
\* the commands: their names and ids
Commands == {<<<<"a">>, <<"1">>>>, <<<<"a", "b">>, <<"1", "2">>>>}

\* the interaction payloads a context is built from
Payloads ==
    { [ token |-> "tok", id |-> "i9", guild_id |-> <<"5">>, channel_id |-> <<"3", "0">>,
        member |-> [user |-> [id |-> <<"7">>]], data |-> [name |-> cmd[1], id |-> cmd[2]] ]
      : cmd \in Commands }

Contexts ==
    { SlashContextInit(j, g, m, ch, am) :
        j \in Payloads, g \in BOOLEAN, m \in BOOLEAN,
        ch \in {"None", "TextChannel", "VoiceChannel"}, am \in {"None", "bot_am"} }

\* what users type: the text of a command invocation, one of a name with
\* another id, one with arguments, one cut short, and plain text
Contents ==
    { <<"<", "/">> \o cmd[1] \o <<":">> \o cmd[2] \o <<">">> : cmd \in Commands }
    \cup { <<"<", "/", "a", ":", "1", "2", ">">>, <<"<", "/", "a", ":", "1", ">", " ", "x">>,
           <<"<", "/", "a", ":", "1">>, <<"h", "i">> }

\* the messages the gateway may dispatch while respond() waits
Messages ==
    [ author_id : {7, 8}, channel_id : {30, 31}, type : {0, UserInputType}, content : Contents ]

DefaultArgs ==
    [ content |-> StrContent(""), wait |-> FALSE, embed |-> "None", embeds |-> NoSeq,
      tts |-> FALSE, file |-> "None", files |-> NoSeq, allowed_mentions |-> "None",
      hidden |-> FALSE, delete_after |-> NoDelay ]

EmbedSeq(n) == [i \in 1..n |-> i]

\* the arguments of send() explored together with sequences of calls
ProtocolArgs ==
    LET plain == [DefaultArgs EXCEPT !.content = StrContent("hi")]
        both == [plain EXCEPT !.embed = "e0", !.embeds = List(EmbedSeq(1))]
    IN  { plain, both,
          [plain EXCEPT !.hidden = TRUE],
          [plain EXCEPT !.content = IntContent(3)],
          [plain EXCEPT !.delete_after = Delay(5)] }

\* the contents send_hidden is called with directly
DirectContents == {StrContent("hi"), IntContent(3)}

\* the arguments _legacy_send is called with
LegacyArgs == {[DefaultArgs EXCEPT !.content = StrContent("hi"), !.embeds = Tuple(EmbedSeq(1))]}

\* the arguments of send() explored for a single call
AllArgs ==
    [ content : {StrContent("hi"), IntContent(1), IntContent(2), IntContent(5), IntContent(6)},
      wait : BOOLEAN,
      embed : {"None", "e0"},
      embeds : {NoSeq, Tuple(<<>>), Tuple(EmbedSeq(1))}
                 \cup {List(EmbedSeq(n)) : n \in 0..MaxEmbedsLen},
      tts : BOOLEAN,
      file : {"None", "f0"},
      files : {NoSeq, List(<<>>), List(<<"f1">>)},
      allowed_mentions : {"None", "am"},
      hidden : BOOLEAN,
      delete_after : {NoDelay, Delay(0), Delay(5)} ]

(***************************************************************************)
(* The state.                                                              *)
(***************************************************************************)
NoResult == [kind |-> "pending", exc |-> "", value |-> None]
Return(v) == [kind |-> "return", exc |-> "", value |-> v]
Raise(e) == [kind |-> "raise", exc |-> e, value |-> None]

NoCall ==
    [ op |-> "none", eat |-> FALSE, args |-> DefaultArgs, task |-> 0,
      timedOut |-> FALSE, warnings |-> {} ]

Snapshot == [sent |-> sent, message |-> message, nposts |-> Len(posts)]

Init ==
    /\ ctx \in Contexts
    /\ sent = FALSE
    /\ message = None
    /\ posts = <<>>
    /\ deletions = <<>>
    /\ pc = "idle"
    /\ call = NoCall
    /\ entry = [sent |-> FALSE, message |-> None, nposts |-> 0]
    /\ result = NoResult
    /\ waited = 0
    /\ history = <<>>

\* respond() up to its first await: the task of the initial post is created,
\* sent is set, and the coroutine waits for the message or for the task
StartRespond(eat) ==
    /\ posts' = Append(posts, AckPost(ctx, eat))
    /\ sent' = TRUE
    /\ pc' = IF eat THEN "await_task" ELSE "wait_for"
    /\ waited' = 0

\* send() from `if hidden:` on, up to the await of the followup post
SendTail(c0) ==
    LET out == SendOutcome(ctx, c0.args)
    IN  /\ posts' = posts \o out.post
        /\ call' = [c0 EXCEPT !.warnings = @ \cup out.warnings]
        /\ IF out.exc # ""
           THEN pc' = "idle" /\ result' = Raise(out.exc)
           ELSE pc' = "await_post" /\ result' = NoResult

\* a call of respond(eat)
respond(eat) ==
    /\ pc = "idle"
    /\ Len(history) < MaxCalls
    /\ history' = Append(history, "respond")
    /\ entry' = Snapshot
    /\ call' = [NoCall EXCEPT !.op = "respond", !.eat = eat, !.task = Len(posts) + 1]
    /\ result' = NoResult
    /\ StartRespond(eat)
    /\ UNCHANGED <<ctx, message, deletions>>

\* a call of send(...)
send(a) ==
    /\ pc = "idle"
    /\ Len(history) < MaxCalls
    /\ history' = Append(history, "send")
    /\ entry' = Snapshot
    /\ IF IsLegacyContent(a.content)
       THEN /\ call' = [NoCall EXCEPT !.op = "send", !.args = a]
            /\ result' = Raise("IncorrectFormat")
            /\ UNCHANGED <<sent, posts, pc, waited>>
       ELSE IF ShouldRespond(sent)
       THEN /\ call' = [NoCall EXCEPT !.op = "send", !.args = a, !.task = Len(posts) + 1,
                                      !.warnings = {WarnRespondFirst}]
            /\ result' = NoResult
            /\ StartRespond(FALSE)
       ELSE /\ SendTail([NoCall EXCEPT !.op = "send", !.args = a])
            /\ UNCHANGED <<sent, waited>>
    /\ UNCHANGED <<ctx, message, deletions>>

\* a call of send_hidden(content), awaited: the followup is posted whatever
\* sent and content are
send_hidden(content) ==
    /\ pc = "idle"
    /\ Len(history) < MaxCalls
    /\ history' = Append(history, "send_hidden")
    /\ entry' = Snapshot
    /\ call' = [NoCall EXCEPT !.op = "send_hidden", !.args = [DefaultArgs EXCEPT !.content = content]]
    /\ result' = NoResult
    /\ posts' = Append(posts, HiddenPost(ctx, content))
    /\ pc' = "await_post"
    /\ UNCHANGED <<ctx, sent, message, deletions, waited>>

\* a call of _legacy_send(content, tts, embeds, allowed_mentions), awaited
_legacy_send(a) ==
    /\ pc = "idle"
    /\ Len(history) < MaxCalls
    /\ history' = Append(history, "_legacy_send")
    /\ entry' = Snapshot
    /\ call' = [NoCall EXCEPT !.op = "_legacy_send", !.args = a]
    /\ result' = NoResult
    /\ posts' = Append(posts, Post(ctx, FALSE, LegacyBase(ctx, a), FALSE, NoSeq, "running"))
    /\ pc' = "await_post"
    /\ UNCHANGED <<ctx, sent, message, deletions, waited>>

InRespond == pc \in {"wait_for", "await_task"}

\* the event loop runs the task of the initial post up to its request
AckTaskStart ==
    /\ InRespond
    /\ posts[call.task].status = "created"
    /\ posts' = [posts EXCEPT ![call.task].status = "running"]
    /\ UNCHANGED <<ctx, sent, message, deletions, pc, call, entry, result, waited, history>>

\* the initial post completes, or fails
AckTaskDone(ok) ==
    /\ InRespond
    /\ posts[call.task].status = "running"
    /\ posts' = [posts EXCEPT ![call.task].status = IF ok THEN "ok" ELSE "err"]
    /\ UNCHANGED <<ctx, sent, message, deletions, pc, call, entry, result, waited, history>>

\* a second passes in bot.wait_for("message", timeout=3, check=check)
Tick ==
    /\ pc = "wait_for"
    /\ posts[call.task].status # "created"
    /\ waited < WaitForTimeout
    /\ waited' = waited + 1
    /\ UNCHANGED <<ctx, sent, message, posts, deletions, pc, call, entry, result, history>>

\* the gateway dispatches a message: wait_for returns the first one check accepts
MessageArrives(m) ==
    /\ pc = "wait_for"
    /\ waited < WaitForTimeout
    /\ IF check(ctx, m)
       THEN message' = m /\ pc' = "await_task" /\ waited' = 0
       ELSE UNCHANGED <<message, pc, waited>>
    /\ UNCHANGED <<ctx, sent, posts, deletions, call, entry, result, history>>

\* wait_for raises asyncio.TimeoutError, which suppress() swallows
WaitTimesOut ==
    /\ pc = "wait_for"
    /\ waited = WaitForTimeout
    /\ pc' = "await_task"
    /\ waited' = 0
    /\ call' = [call EXCEPT !.timedOut = TRUE]
    /\ UNCHANGED <<ctx, sent, message, posts, deletions, entry, result, history>>

\* `await _task` resumes: respond() returns or raises the error of the post,
\* and a send() that called it goes on
AwaitTask ==
    /\ pc = "await_task"
    /\ posts[call.task].status \in {"ok", "err"}
    /\ IF posts[call.task].status = "err"
       THEN pc' = "idle" /\ result' = Raise("HTTPException") /\ UNCHANGED <<posts, call>>
       ELSE IF call.op = "respond"
       THEN pc' = "idle" /\ result' = Return(None) /\ UNCHANGED <<posts, call>>
       ELSE SendTail(call)
    /\ UNCHANGED <<ctx, sent, message, deletions, entry, waited, history>>

\* the followup post completes, or fails: send_hidden and _legacy_send give
\* the answer to the post, send() what send_hidden got, or the SlashMessage,
\* after creating the task of its deletion
FollowupDone(ok) ==
    /\ pc = "await_post"
    /\ pc' = "idle"
    /\ posts' = [posts EXCEPT ![Len(posts)].status = IF ok THEN "ok" ELSE "err"]
    /\ IF ~ok
       THEN result' = Raise("HTTPException") /\ UNCHANGED deletions
       ELSE IF call.op # "send" \/ call.args.hidden
       THEN result' = Return(Response(Len(posts))) /\ UNCHANGED deletions
       ELSE LET smsg == SlashMessage(ctx, Response(Len(posts)))
            IN  /\ result' = Return(smsg)
                /\ deletions' =
                     IF ShouldDelete(call.args.delete_after)
                     THEN Append(deletions, [ msg |-> smsg,
                                              delay |-> call.args.delete_after.secs,
                                              status |-> "scheduled" ])
                     ELSE deletions
    /\ UNCHANGED <<ctx, sent, message, call, entry, waited, history>>

\* the event loop runs a deletion task to its end
DeletionRuns(i) ==
    /\ deletions[i].status = "scheduled"
    /\ deletions' = [deletions EXCEPT ![i].status = "done"]
    /\ UNCHANGED <<ctx, sent, message, posts, pc, call, entry, result, waited, history>>

\* sequences of calls
Next ==
    \/ \E eat \in BOOLEAN : respond(eat)
    \/ \E a \in ProtocolArgs : send(a)
    \/ \E c \in DirectContents : send_hidden(c)
    \/ \E a \in LegacyArgs : _legacy_send(a)
    \/ AckTaskStart
    \/ \E ok \in BOOLEAN : AckTaskDone(ok)
    \/ Tick
    \/ \E m \in Messages : MessageArrives(m)
    \/ WaitTimesOut
    \/ AwaitTask
    \/ \E ok \in BOOLEAN : FollowupDone(ok)
    \/ \E i \in 1..Len(deletions) : DeletionRuns(i)

Spec == Init /\ [][Next]_vars

\* one call of send() with any arguments, on a fresh context or after a
\* respond(eat=True), in the contexts of one payload whose guild and member
\* are known, and with two of the gateway's messages
OneContext ==
    /\ ctx.name = <<"a">>
    /\ ctx.command_id = <<"1">>
    /\ ~ctx.author.isInt
    /\ ~ctx.channel.isInt
    /\ ctx.bot_allowed_mentions = "bot_am"

TwoMessages ==
    { [author_id |-> 7, channel_id |-> 30, type |-> t, content |-> <<"<", "/", "a", ":", "1", ">">>]
      : t \in {0, UserInputType} }

InitArgs == Init /\ OneContext

NextArgs ==
    \/ history = <<>> /\ respond(TRUE)
    \/ pc = "idle" /\ call.op # "send" /\ \E a \in AllArgs : send(a)
    \/ AckTaskStart
    \/ \E ok \in BOOLEAN : AckTaskDone(ok)
    \/ Tick
    \/ \E m \in TwoMessages : MessageArrives(m)
    \/ WaitTimesOut
    \/ AwaitTask
    \/ \E ok \in BOOLEAN : FollowupDone(ok)
    \/ \E i \in 1..Len(deletions) : DeletionRuns(i)

SpecArgs == InitArgs /\ [][NextArgs]_vars

(***************************************************************************)
(* What the properties below speak of.                                     *)
(***************************************************************************)
\* a call has ended
Finished == pc = "idle" /\ call.op # "none"

\* the posts the call made
PostsOfCall == {i \in 1..Len(posts) : i > entry.nposts}

FollowupsOfCall == {i \in PostsOfCall : ~posts[i].initial}

\* the call ran respond() and its initial post failed
AckFailed == call.task # 0 /\ posts[call.task].status = "err"

\* send() got as far as `if hidden:`
PastRespond == pc = "await_post" \/ (Finished /\ ~AckFailed)

LegacyInt(content) == content.kind = "int" /\ content.n \in 2..5

\* no post has failed: the platform answered every request
NoPostFailed == \A i \in 1..Len(posts) : posts[i].status # "err"

\* only respond() and send() have been called so far
OnlyRespondAndSend == \A k \in 1..Len(history) : history[k] \in {"respond", "send"}

\* both embed and embeds, or both file and files, are given and truthy
BothGiven(a) ==
    \/ (a.embed # "None" /\ a.embeds.kind # "none" /\ a.embeds.items # <<>>)
    \/ (a.file # "None" /\ a.files.kind # "none" /\ a.files.items # <<>>)

(***************************************************************************)
(* C1.  `sent` tells whether the initial response was sent: whenever sent  *)
(* is True, an acknowledgment post has been made and has completed without *)
(* error.  Stated here for the states between two calls, where the caller  *)
(* reads the flag.                                                         *)
(***************************************************************************)
C1_SentMeansAcknowledged ==
    (pc = "idle" /\ sent) =>
        \E i \in 1..Len(posts) : posts[i].initial /\ posts[i].status = "ok"

(***************************************************************************)
(* C2.  The acknowledgment comes first: in a series of respond() and       *)
(* send() calls the first post of a context is an acknowledgment and a     *)
(* followup is posted only when an earlier acknowledgment post has         *)
(* completed, that is without error, as it has when respond() returns; a   *)
(* send() on a context whose sent is False posts the acknowledgment of     *)
(* type 5 itself and posts its followup only once that post has completed  *)
(* without error; a send() on a context whose sent is True posts no        *)
(* acknowledgment.                                                         *)
(***************************************************************************)
C2_AckComesFirst ==
    /\ OnlyRespondAndSend =>
         /\ posts # <<>> => posts[1].initial
         /\ \A i \in 1..Len(posts) :
              ~posts[i].initial =>
                  \E j \in 1..(i - 1) : posts[j].initial /\ posts[j].status = "ok"
    /\ (call.op = "send" /\ ~entry.sent /\ ~LegacyInt(call.args.content)) =>
         /\ Len(posts) > entry.nposts
         /\ posts[entry.nposts + 1].initial
         /\ posts[entry.nposts + 1].body = [type |-> 5]
         /\ \A i \in FollowupsOfCall :
              i > entry.nposts + 1 /\ posts[entry.nposts + 1].status = "ok"
    /\ (call.op = "send" /\ entry.sent) =>
         \A i \in PostsOfCall : ~posts[i].initial

(***************************************************************************)
(* C3 as claimed.  A send() given both embed and embeds, or both file and  *)
(* files, posts no followup and raises IncorrectFormat, whatever the other *)
(* arguments (hidden included).  Stated for a str content and while no     *)
(* post has failed.                                                        *)
(***************************************************************************)
C3_Original ==
    (call.op = "send" /\ BothGiven(call.args) /\ call.args.content.kind = "str"
       /\ NoPostFailed) =>
        /\ FollowupsOfCall = {}
        /\ Finished => result.exc = "IncorrectFormat"

(***************************************************************************)
(* C3 as amended.  A send() with hidden False given both embed and embeds, *)
(* or both file and files, posts no followup and raises: IncorrectFormat,  *)
(* or the error of the acknowledgment post it had to make first.  With     *)
(* hidden True, and content no legacy integer, it does not raise           *)
(* IncorrectFormat and posts the hidden followup.                          *)
(***************************************************************************)
C3_ExclusiveUnlessHidden ==
    (call.op = "send" /\ BothGiven(call.args)) =>
        /\ ~call.args.hidden =>
             /\ FollowupsOfCall = {}
             /\ Finished =>
                  /\ result.kind = "raise"
                  /\ result.exc = "IncorrectFormat" \/ AckFailed
        /\ (call.args.hidden /\ ~LegacyInt(call.args.content)) =>
             /\ Finished => result.exc # "IncorrectFormat"
             /\ PastRespond => FollowupsOfCall # {}

\* a send() with hidden False and a str content raised for the two arguments
C3_Witness ==
    /\ Finished
    /\ call.op = "send"
    /\ BothGiven(call.args)
    /\ ~call.args.hidden
    /\ call.args.content.kind = "str"
    /\ result.exc = "IncorrectFormat"

(***************************************************************************)
(* C4 as claimed.  A send() that raises IncorrectFormat has made no post   *)
(* at all and has left sent and message unchanged.                         *)
(***************************************************************************)
C4_Original ==
    (Finished /\ call.op = "send" /\ result.exc = "IncorrectFormat") =>
        /\ Len(posts) = entry.nposts
        /\ sent = entry.sent
        /\ message = entry.message

(***************************************************************************)
(* C4 as amended.  A send() that raises IncorrectFormat has posted no      *)
(* followup.  It has made no post at all and left sent and message         *)
(* unchanged when the content was a legacy integer or sent was already     *)
(* True; otherwise it has first run respond(): it has made exactly one     *)
(* post, the acknowledgment, which completed without error, and sent is    *)
(* True.                                                                   *)
(***************************************************************************)
C4_NoFollowupOnIncorrectFormat ==
    (Finished /\ call.op = "send" /\ result.exc = "IncorrectFormat") =>
        /\ FollowupsOfCall = {}
        /\ (LegacyInt(call.args.content) \/ entry.sent) =>
             /\ Len(posts) = entry.nposts
             /\ sent = entry.sent
             /\ message = entry.message
        /\ (~LegacyInt(call.args.content) /\ ~entry.sent) =>
             /\ Len(posts) = entry.nposts + 1
             /\ posts[Len(posts)].initial
             /\ posts[Len(posts)].status = "ok"
             /\ sent

\* a send() on a context whose sent was False raised for its embeds
C4_Witness ==
    /\ Finished
    /\ call.op = "send"
    /\ result.exc = "IncorrectFormat"
    /\ ~entry.sent
    /\ ~LegacyInt(call.args.content)

(***************************************************************************)
(* C5.  A hidden send carries content only.  A send() with hidden True     *)
(* (and content no legacy integer) that gets past its acknowledgment posts *)
(* exactly one followup, of body {content, flags: 64}, with wait False and *)
(* without files; it never raises IncorrectFormat, logs the warning        *)
(* exactly when embed or embeds were given, and returns the answer to that *)
(* post.  A send() with hidden False never posts a body with flags.        *)
(***************************************************************************)
C5_HiddenCarriesContentOnly ==
    call.op = "send" =>
        /\ (call.args.hidden /\ ~LegacyInt(call.args.content)) =>
             /\ \A i \in FollowupsOfCall :
                  /\ posts[i].body = [content |-> call.args.content, flags |-> 64]
                  /\ posts[i].wait = FALSE
                  /\ posts[i].files = NoSeq
                  /\ FollowupsOfCall = {i}
                  /\ (Finished /\ result.kind = "return") => result.value = [id |-> i]
                  /\ ("Embed is not supported for hidden" \in call.warnings)
                       <=> (call.args.embed # "None" \/ Truthy(call.args.embeds))
             /\ PastRespond => FollowupsOfCall # {}
             /\ Finished => result.exc # "IncorrectFormat"
        /\ ~call.args.hidden =>
             \A i \in FollowupsOfCall : "flags" \notin DOMAIN posts[i].body

\* a hidden send() given an embed, tts and wait has returned
C5_Witness ==
    /\ Finished
    /\ call.op = "send"
    /\ call.args.hidden
    /\ call.args.embed # "None"
    /\ call.args.tts
    /\ call.args.wait
    /\ result.kind = "return"

(***************************************************************************)
(* C6.  A send() with hidden False carries at most 10 embeds.  With embeds *)
(* a list of n > 10 it posts no followup and, once past its                *)
(* acknowledgment, raises IncorrectFormat; with 1 <= n <= 10 (and no       *)
(* embed) the body it posts has the n embeds in the given order; with an   *)
(* embed the body has that one embed; with neither the body has none.      *)
(***************************************************************************)
C6_AtMostTenEmbeds ==
    LET a == call.args
        n == Len(a.embeds.items)
    IN  (call.op = "send" /\ ~a.hidden) =>
            /\ (a.embeds.kind = "list" /\ n > 10) =>
                 /\ FollowupsOfCall = {}
                 /\ (Finished /\ ~AckFailed) => result.exc = "IncorrectFormat"
            /\ (a.embeds.kind = "list" /\ n \in 1..10 /\ a.embed = "None"
                  /\ ~LegacyInt(a.content) /\ ~BothGiven(a) /\ PastRespond) =>
                 FollowupsOfCall # {}
            /\ \A i \in FollowupsOfCall :
                 /\ (a.embeds.kind = "list" /\ n \in 1..10 /\ a.embed = "None") =>
                      /\ Len(posts[i].body.embeds) = n
                      /\ \A k \in 1..n :
                           posts[i].body.embeds[k] = [type |-> "rich", title |-> a.embeds.items[k]]
                 /\ a.embed # "None" =>
                      posts[i].body.embeds = <<[type |-> "rich", title |-> a.embed]>>
                 /\ (a.embed = "None" /\ a.embeds.kind = "none") =>
                      posts[i].body.embeds = <<>>

\* a send() with a list of 10 embeds has posted them
C6_Witness ==
    /\ call.op = "send"
    /\ ~call.args.hidden
    /\ call.args.embeds.kind = "list"
    /\ Len(call.args.embeds.items) = 10
    /\ FollowupsOfCall # {}
    /\ Len(posts[Len(posts)].body.embeds) = 10

(***************************************************************************)
(* C7.  If delete_after is provided to send(), then once the message has   *)
(* been sent a deletion of exactly that message with that delay is         *)
(* scheduled.  Stated for a send() with hidden False and a str content     *)
(* that returned its message, no post having failed.                       *)
(***************************************************************************)
C7_DeleteAfterSchedulesDeletion ==
    (Finished /\ call.op = "send" /\ result.kind = "return" /\ NoPostFailed
       /\ call.args.content.kind = "str"
       /\ ~call.args.hidden /\ call.args.delete_after.given) =>
        \E d \in 1..Len(deletions) :
            /\ deletions[d].msg = result.value
            /\ deletions[d].delay = call.args.delete_after.secs

(***************************************************************************)
(* C8.  A call of respond(eat) makes exactly one post: the initial one, of *)
(* type 2 when eat is True and 5 when it is False, with the context's      *)
(* interaction id and token.  respond() ends only after that post has      *)
(* completed: it returns when the post succeeded and raises the error of   *)
(* the post when it failed, also when the wait for the message timed out.  *)
(***************************************************************************)
C8_RespondPostsOnceAndAwaits ==
    call.op = "respond" =>
        /\ Len(posts) = entry.nposts + 1
        /\ posts[Len(posts)].initial
        /\ posts[Len(posts)].body = [type |-> IF call.eat THEN 2 ELSE 5]
        /\ posts[Len(posts)].wait = FALSE
        /\ posts[Len(posts)].interaction_id = ctx.interaction_id
        /\ posts[Len(posts)].token = ctx.token
        /\ Finished =>
             /\ posts[Len(posts)].status \in {"ok", "err"}
             /\ result.kind = "return" <=> posts[Len(posts)].status = "ok"
             /\ result.kind = "raise" <=> posts[Len(posts)].status = "err"
             /\ result.kind = "raise" => result.exc = "HTTPException"

\* a respond(eat=False) whose wait timed out has returned
C8_Witness ==
    /\ Finished
    /\ call.op = "respond"
    /\ ~call.eat
    /\ call.timedOut
    /\ result.kind = "return"

(***************************************************************************)
(* C9.  message is None or a message that passed the four conditions: the  *)
(* author and the channel of the context, type 20, and a content that      *)
(* starts with "</name:command_id>".  respond(eat=True), send_hidden(), a  *)
(* wait that timed out and a send() on a context whose sent is True leave  *)
(* message as it was; after respond(eat=True) on a fresh context it is     *)
(* None.                                                                   *)
(***************************************************************************)
C9_MessageIsTheInvocation ==
    /\ message # None =>
         /\ message.author_id = ctx.author.id
         /\ message.channel_id = ctx.channel.id
         /\ message.type = 20
         /\ LET prefix == <<"<", "/">> \o ctx.name \o <<":">> \o ctx.command_id \o <<">">>
            IN  /\ Len(message.content) >= Len(prefix)
                /\ \A k \in 1..Len(prefix) : message.content[k] = prefix[k]
    /\ (call.op = "respond" /\ call.eat) => message = entry.message
    /\ call.timedOut => message = entry.message
    /\ (call.op = "send" /\ entry.sent) => message = entry.message
    /\ call.op = "send_hidden" =>
         /\ message = entry.message
         /\ sent = entry.sent
         /\ Len(posts) = entry.nposts + 1
         /\ posts[Len(posts)].body = [content |-> call.args.content, flags |-> 64]
    /\ (Len(history) = 1 /\ call.op = "respond" /\ call.eat) => message = None

\* respond(eat=False) has returned with the message that invoked the command
C9_Witness ==
    /\ Finished
    /\ call.op = "respond"
    /\ ~call.eat
    /\ message # None
    /\ message # entry.message

====
